---- MODULE Spec2Model ----
(***************************************************************************)
(* A model of iso::format::Format (src/format.hpp): the compile-time       *)
(* scanner of a format literal, the specifier/type validation, the length  *)
(* planner, the per-kind render routines and the printf overloads; and of  *)
(* iso::log::Log (src/log.hpp): the level test of its functions.           *)
(*                                                                         *)
(* Bytes are numbers 0..255.  A literal is the char array S::string, its   *)
(* terminator included; arrays are indexed from 0 as in the source (At).   *)
(* The data model of the build is that of a 16-bit target: char is 8 bits  *)
(* and signed, int, size_t and pointers are 16 bits.                       *)
(***************************************************************************)
EXTENDS Integers, Sequences, FiniteSets, TLC

\* ------------------------------------------------------------------ bounds

\* Longest literal, terminator excluded.
MaxLitLen == 4

\* Most arguments of one call.
MaxArgs == 2

\* Widest width a single SpecCheck instantiation is tried with.
MaxWidth == 9

\* Longest literal handed to the scanner alone, terminator excluded.
MaxScanLen == 6

\* Most bytes of a dumped DataBuffer.
MaxDump == 2

\* ------------------------------------------------------------------- bytes

\* The printable characters, code 32 first.
Ascii ==
  << " ", "!", "dquote", "#", "$", "%", "&", "'", "(", ")", "*", "+", ",", "-", ".", "/",
     "0", "1", "2", "3", "4", "5", "6", "7", "8", "9", ":", ";", "<", "=", ">", "?",
     "@", "A", "B", "C", "D", "E", "F", "G", "H", "I", "J", "K", "L", "M", "N", "O",
     "P", "Q", "R", "S", "T", "U", "V", "W", "X", "Y", "Z", "[", "backslash", "]", "^", "_",
     "backtick", "a", "b", "c", "d", "e", "f", "g", "h", "i", "j", "k", "l", "m", "n", "o",
     "p", "q", "r", "s", "t", "u", "v", "w", "x", "y", "z", "{", "|", "}", "~" >>

\* The code of a character literal such as '%'.
Ord(c) == 31 + (CHOOSE i \in 1..Len(Ascii) : Ascii[i] = c)

\* The character literals the source names.
CharPercent == Ord("%")

CharZero == Ord("0")

CharNine == Ord("9")

CharMinus == Ord("-")

CharDot == Ord(".")

CharUpperA == Ord("A")

CharLowerX == Ord("x")

\* The bytes of a sequence of characters (no terminator).
Chars(cs) == [i \in 1..Len(cs) |-> Ord(cs[i])]

\* The char array of a string literal: its characters and the terminator.
Literal(cs) == Chars(cs) \o <<0>>

\* s[i] of a C array.
At(s, i) == s[i + 1]

\* A value stored into a char of the buffer keeps its low 8 bits.
ToByte(v) == v % 256

\* 2^n and 10^n.
RECURSIVE Pow(_, _)
Pow(b, n) == IF n = 0 THEN 1 ELSE b * Pow(b, n - 1)

\* C's integer division and remainder, which truncate towards zero.
CDiv(a, b) == IF a >= 0 THEN a \div b ELSE -((-a) \div b)

CRem(a, b) == a - b * CDiv(a, b)

\* -------------------------------------------------------------- data model

\* sizeof(int): operands of lower rank are promoted to int.
IntBytes == 2

\* sizeof(size_t).
SizeTBytes == 2

\* sizeof(void *).
PtrBytes == 2

\* Whether plain char is a signed type in this build.
CharIsSigned == TRUE

\* The argument types a call is tried with.
Types == {"int8_t", "uint8_t", "int", "unsigned", "char", "bool", "pointer", "String", "float"}

\* The literal of the String type passed to %s: string<"ok">.
StringArg == Literal(<<"o", "k">>)

sizeof(T) ==
  CASE T \in {"int8_t", "uint8_t", "char", "bool", "String"} -> 1
    [] T = "int" -> IntBytes
    [] T = "unsigned" -> SizeTBytes
    [] T = "pointer" -> PtrBytes
    [] T = "float" -> 4

is_integral_v(T) == T \in {"int8_t", "uint8_t", "int", "unsigned", "char", "bool"}

is_signed_v(T) == T \in {"int8_t", "int", "float"} \/ (T = "char" /\ CharIsSigned)

is_unsigned_v(T) == T \in {"uint8_t", "unsigned", "bool"} \/ (T = "char" /\ ~CharIsSigned)

is_pointer_v(T) == T = "pointer"

is_string_v(T) == T = "String"

is_convertible_bool(T) == T # "String"

is_same_char(T) == T = "char"

\* The least and greatest value of an integral type of n bytes.
MinSigned(n) == -Pow(2, 8 * n - 1)

MaxSigned(n) == Pow(2, 8 * n - 1) - 1

MaxUnsigned(n) == Pow(2, 8 * n) - 1

\* -------------------------------------------------------------- specifiers

Unknown == 0

SignedDecimalInteger == Ord("d")

UnsignedDecimalInteger == Ord("u")

UnsignedHexadecimalInteger == Ord("X")

Character == Ord("c")

StringOfCharacters == Ord("s")

PointerAddress == Ord("p")

Time == Ord("t")

Boolean == Ord("b")

specifiers ==
  { SignedDecimalInteger, UnsignedDecimalInteger, UnsignedHexadecimalInteger, Character,
    StringOfCharacters, PointerAddress, Time, Boolean }

\* A value-initialised SpecifierData.
SpecifierData == [specifier |-> Unknown, width |-> 0, position |-> 0, size |-> 0]

IsDigit(sym) == (CharZero <= sym) /\ (sym <= CharNine)

\* The number of '%' in the literal.
SpecifierQuantity(s) == Cardinality({i \in 1..Len(s) : s[i] = CharPercent})

\* while (IsDigit(S::string[++i])): i is the index already incremented.  A '0'
\* met while the width is still 0 is skipped.  width is an unsigned, of the
\* size of int: the sum wraps.
RECURSIVE ScanWidth(_, _, _)
ScanWidth(s, i, width) ==
  IF IsDigit(At(s, i))
    THEN IF (CharZero = At(s, i)) /\ (0 = width)
           THEN ScanWidth(s, i + 1, width)
           ELSE ScanWidth(s, i + 1,
                          ((10 * width) + (At(s, i) - CharZero)) % Pow(2, 8 * IntBytes))
    ELSE [i |-> i, width |-> width]

\* The for loop of the constructor from index i on, pos entries filled so far.
RECURSIVE ScanLoop(_, _, _, _)
ScanLoop(s, i, pos, data) ==
  IF i >= Len(s)
    THEN data
    ELSE IF CharPercent = At(s, i)
           THEN LET w == ScanWidth(s, i + 1, 0)
                    specInString == At(s, w.i)
                    entry == [specifier |-> IF specInString \in specifiers
                                              THEN specInString
                                              ELSE Unknown,
                              width |-> w.width,
                              position |-> i,
                              size |-> w.i - i + 1]
                IN ScanLoop(s, w.i + 1, pos + 1, [data EXCEPT ![pos + 1] = entry])
           ELSE ScanLoop(s, i + 1, pos, data)

\* SpecifierTable<N>(str) with N = SpecifierQuantity(str).
SpecifierTable(s) == ScanLoop(s, 0, 0, [k \in 1..SpecifierQuantity(s) |-> SpecifierData])

\* checkWidth with the unsigned decimal forgotten in the test.
checkWidthSignedOnly(data) ==
  \A k \in 1..Len(data) : ~((data[k].specifier # SignedDecimalInteger) /\ data[k].width # 0)

\* The lambda of printf: no entry other than a decimal one has a width.
checkWidth(data) ==
  \A k \in 1..Len(data) :
    ~(((data[k].specifier # SignedDecimalInteger) /\ (data[k].specifier # UnsignedDecimalInteger))
      /\ data[k].width # 0)

\* --------------------------------------------------------------- SpecCheck

\* valid with the size test of %t left out.
SpecCheckValidAnySize(sp, T) ==
  CASE sp = SignedDecimalInteger -> is_signed_v(T) /\ is_integral_v(T)
    [] sp = UnsignedDecimalInteger -> is_unsigned_v(T) /\ is_integral_v(T)
    [] sp = UnsignedHexadecimalInteger -> is_unsigned_v(T) /\ is_integral_v(T)
    [] sp = Character -> is_same_char(T)
    [] sp = StringOfCharacters -> is_string_v(T)
    [] sp = PointerAddress -> is_pointer_v(T)
    [] sp = Time -> is_unsigned_v(T) /\ is_integral_v(T)
    [] sp = Boolean -> is_convertible_bool(T)
    [] OTHER -> FALSE

\* SpecCheck<sp, Type>::valid; the primary template (Unknown) has it false.
SpecCheckValid(sp, T) ==
  CASE sp = SignedDecimalInteger -> is_signed_v(T) /\ is_integral_v(T)
    [] sp = UnsignedDecimalInteger -> is_unsigned_v(T) /\ is_integral_v(T)
    [] sp = UnsignedHexadecimalInteger -> is_unsigned_v(T) /\ is_integral_v(T)
    [] sp = Character -> is_same_char(T)
    [] sp = StringOfCharacters -> is_string_v(T)
    [] sp = PointerAddress -> is_pointer_v(T)
    [] sp = Time -> is_unsigned_v(T) /\ is_integral_v(T) /\ (sizeof(T) >= SizeTBytes)
    [] sp = Boolean -> is_convertible_bool(T)
    [] OTHER -> FALSE

\* Each specialisation states static_assert(valid, ...); the primary template
\* states none.
SpecCheckAsserts(sp) == sp \in specifiers

\* Instantiating SpecCheck<sp, Type> is a compile error.
SpecCheckRejects(sp, T) == SpecCheckAsserts(sp) /\ ~SpecCheckValid(sp, T)

\* SpecCheck<sp, Type>::length, the most the routine is planned to write.
SpecCheckLength(sp, T) ==
  CASE sp = SignedDecimalInteger -> (3 * sizeof(T)) - (sizeof(T) \div 2) + 1
    [] sp = UnsignedDecimalInteger -> (3 * sizeof(T)) - (sizeof(T) \div 2)
    [] sp = UnsignedHexadecimalInteger -> 2 * sizeof(T) + 2
    [] sp = Character -> 1
    [] sp = StringOfCharacters -> Len(StringArg) - 1
    [] sp = PointerAddress -> 2 * PtrBytes + 2
    [] sp = Time -> (3 * sizeof(T)) - (sizeof(T) \div 2) + 4
    [] sp = Boolean -> Len(Literal(<<"F", "A", "L", "S", "E">>))
    [] OTHER -> 0

\* CheckSpecsTypes<table>(Args{}...): the sum of the lengths, and the indexes
\* (from 0) of the entries whose SpecCheck instantiation is a compile error.
RECURSIVE CheckSpecsTypes(_, _)
CheckSpecsTypes(data, Args) ==
  LET Rest == Tail(Args)
      tableIndex == Len(data) - (Len(Rest) + 1)
      sp == At(data, tableIndex).specifier
      own == [length |-> SpecCheckLength(sp, Head(Args)),
              failed |-> IF SpecCheckRejects(sp, Head(Args)) THEN {tableIndex} ELSE {}]
  IN IF Len(Rest) # 0
       THEN LET rest == CheckSpecsTypes(data, Rest)
            IN [length |-> rest.length + own.length, failed |-> rest.failed \cup own.failed]
       ELSE own

\* ---------------------------------------------------------------- routines

\* What a build may make of the signed overflow in -arg: the negation wraps,
\* is carried out in a wider register, or traps.
UBOutcomes == {"wrap", "wide", "trap"}

\* do { buffer[num++] = (unsigned char)(arg % 10) + '0'; } while (arg /= 10);
RECURSIVE DigitsLoop(_)
DigitsLoop(arg) ==
  <<ToByte(ToByte(CRem(arg, 10)) + CharZero)>>
    \o (IF CDiv(arg, 10) # 0 THEN DigitsLoop(CDiv(arg, 10)) ELSE <<>>)

\* The padding loop with num <= W::width as its test.
PadLoopInclusive(buf, width) ==
  IF width # 0 /\ Len(buf) <= width
    THEN buf \o [i \in 1..((width + 1) - Len(buf)) |-> CharZero]
    ELSE buf

\* if constexpr (W::width) while (num < W::width) buffer[num++] = '0';
PadLoop(buf, width) ==
  IF width # 0 /\ Len(buf) < width
    THEN buf \o [i \in 1..(width - Len(buf)) |-> CharZero]
    ELSE buf

\* for (i = 0; i < num / 2; i++) swap(buffer[i], buffer[num - i - 1]);
SwapLoop(buf) ==
  LET num == Len(buf)
  IN [j \in 1..num |-> IF (j - 1 < num \div 2) \/ (num - j < num \div 2)
                         THEN buf[num - j + 1]
                         ELSE buf[j]]

\* The digit test written val <= 0xA.
HexDigitInclusive(val) ==
  IF val <= 10 THEN ToByte(val + CharZero) ELSE ToByte(val + (CharUpperA - 10))

\* val < 0xA ? val + '0' : val + ('A' - 0xA)
HexDigit(val) == IF val < 10 THEN ToByte(val + CharZero) ELSE ToByte(val + (CharUpperA - 10))

\* (arg < 0) ? -arg : arg, in the type arg is promoted to.  The negation of
\* the least value of that type overflows.
Negate(T, arg, ub) ==
  LET promoted == IF sizeof(T) < IntBytes THEN IntBytes ELSE sizeof(T)
  IN IF arg >= 0
       THEN [trap |-> FALSE, uArg |-> arg]
       ELSE IF arg # MinSigned(promoted)
              THEN [trap |-> FALSE, uArg |-> -arg]
              ELSE CASE ub = "wrap" -> [trap |-> FALSE, uArg |-> arg]
                     [] ub = "wide" -> [trap |-> FALSE, uArg |-> -arg]
                     [] OTHER -> [trap |-> TRUE, uArg |-> arg]

FormatSignedDecimal(T, arg, width, ub) ==
  LET n == Negate(T, arg, ub)
      digits == PadLoop(DigitsLoop(n.uArg), width)
      signed == IF arg < 0 THEN digits \o <<CharMinus>> ELSE digits
  IN [trap |-> n.trap, out |-> SwapLoop(signed), num |-> Len(signed)]

FormatUnsignedDecimal(arg, width) ==
  LET digits == PadLoop(DigitsLoop(arg), width)
  IN [trap |-> FALSE, out |-> SwapLoop(digits), num |-> Len(digits)]

\* buffer = "0x", then for i in 2..length-1 the nibble at bit 8*bytes - (i-1)*4.
FormatHex(bytes, arg) ==
  LET len == 2 * bytes + 2
  IN [trap |-> FALSE,
      out |-> <<CharZero, CharLowerX>>
                \o [j \in 1..(len - 2) |->
                      HexDigit((arg \div Pow(2, (8 * bytes) - (((j + 1) - 1) * 4))) % 16)],
      num |-> len]

FormatCharacter(arg) == [trap |-> FALSE, out |-> <<ToByte(arg)>>, num |-> 1]

FormatString ==
  LET len == Len(StringArg) - 1
  IN [trap |-> FALSE, out |-> [i \in 1..len |-> At(StringArg, i - 1)], num |-> len]

\* The fraction rendered without its width.
FormatTimeUnpadded(arg) ==
  LET a == [out |-> SwapLoop(DigitsLoop(arg \div 1000))]
      b == [out |-> SwapLoop(DigitsLoop(arg % 1000))]
  IN [trap |-> FALSE, out |-> a.out \o <<CharDot>> \o b.out, num |-> (Len(a.out) + 1) + Len(b.out)]

\* arg / 1000 without a width, '.', arg % 1000 with Width<3>.
FormatTime(arg) ==
  LET a == FormatUnsignedDecimal(arg \div 1000, 0)
      b == FormatUnsignedDecimal(arg % 1000, 3)
  IN [trap |-> FALSE, out |-> a.out \o <<CharDot>> \o b.out, num |-> (a.num + 1) + b.num]

\* The copy loop run up to sizeof(value), terminator included.
FormatBooleanTerminated(arg) ==
  LET cond == arg # 0
      value == IF cond THEN Literal(<<"T", "R", "U", "E">>)
                       ELSE Literal(<<"F", "A", "L", "S", "E">>)
      len == Len(value)
  IN [trap |-> FALSE, out |-> [i \in 1..len |-> At(value, i - 1)], num |-> len]

\* cond = arg ? 1 : 0; the sizeof(value[cond]) - 1 characters of "TRUE" or
\* "FALSE" are copied, the terminator is not.
FormatBoolean(arg) ==
  LET cond == arg # 0
      value == IF cond THEN Literal(<<"T", "R", "U", "E">>)
                       ELSE Literal(<<"F", "A", "L", "S", "E">>)
      len == Len(value) - 1
  IN [trap |-> FALSE, out |-> [i \in 1..len |-> At(value, i - 1)], num |-> len]

\* SpecCheck<sp, Type>::formatArg(buffer, arg, Width<width>{}): the bytes
\* written from buffer[0] on and the length returned.
formatArg(sp, T, arg, width, ub) ==
  CASE sp = SignedDecimalInteger -> FormatSignedDecimal(T, arg, width, ub)
    [] sp = UnsignedDecimalInteger -> FormatUnsignedDecimal(arg, width)
    [] sp = UnsignedHexadecimalInteger -> FormatHex(sizeof(T), arg)
    [] sp = Character -> FormatCharacter(arg)
    [] sp = StringOfCharacters -> FormatString
    [] sp = PointerAddress -> FormatHex(PtrBytes, arg % Pow(2, 8 * SizeTBytes))
    [] sp = Time -> FormatTime(arg)
    [] sp = Boolean -> FormatBoolean(arg)

\* dataBuffer.data[i]: the byte read through const char *, a negative value
\* when char is signed and the byte is 0x80 or more.
DataAt(data, k) ==
  LET byte == At(data, k)
  IN IF CharIsSigned /\ byte >= 128 THEN byte - 256 ELSE byte

\* One pass of the loop of the dump overload over the char c: " XX" with
\* val = c >> 4 (an arithmetic shift of the promoted char) and val = c & 0xF
\* put through the digit test, and the terminator of the array.
HexGroup(c) ==
  LET high == c \div 16
      low == c % 16
  IN <<Ord(" "), HexDigit(high), HexDigit(low), 0>>

\* "\r\n"
LineEnd == <<13, 10, 0>>

\* ------------------------------------------------------------------ inputs

\* The characters the literals of a general call are made of.
CallAlphabet == {Ord(c) : c \in {"%", "9", "d", "u", "X", "a"}}

\* Every literal of at most MaxLitLen characters over the alphabet.
CallLiterals ==
  UNION {{cs \o <<0>> : cs \in [1..n -> CallAlphabet]} : n \in 0..MaxLitLen}

\* The argument types of a general call.
CallTypes == {"uint8_t", "int"}

\* The argument lists (types) of a general call: 1 to MaxArgs arguments.
CallArgs == UNION {[1..k -> CallTypes] : k \in 1..MaxArgs}

\* The values a general call passes for a type.
CallValues(T) ==
  CASE T = "uint8_t" -> {0, 7, MaxUnsigned(1)}
    [] T = "int" -> {MinSigned(IntBytes), -555, 0, 12}
    [] OTHER -> {}

\* The decimal digits of n most significant first, written out by hand.
RECURSIVE Decimal(_)
Decimal(n) == IF n < 10 THEN <<CharZero + n>> ELSE Decimal(n \div 10) \o <<CharZero + (n % 10)>>

\* The literals with one specifier: '%', a width of at most MaxWidth with or
\* without a leading '0', and a kind character, a character that is no kind,
\* or nothing.
UnitLiterals ==
  { (<<CharPercent>> \o zero \o (IF w = 0 THEN <<>> ELSE Decimal(w)) \o kind) \o <<0>> :
      zero \in {<<>>, <<CharZero>>},
      w \in 0..MaxWidth,
      kind \in {<<sp>> : sp \in specifiers} \cup {<<Ord("a")>>, <<>>} }

\* The values a single-specifier call passes for a type: every value of the
\* 8-bit types, the edges and some values between for the others.
Values(T) ==
  CASE T = "int8_t" -> MinSigned(1)..MaxSigned(1)
    [] T = "uint8_t" -> 0..MaxUnsigned(1)
    [] T = "int" -> { MinSigned(IntBytes), MinSigned(IntBytes) + 1, -10000, -9999, -555, -10,
                      -9, -1, 0, 1, 9, 10, 555, 9999, 10000, MaxSigned(IntBytes) }
    [] T = "unsigned" -> { 0, 9, 10, 59, 99, 100, 999, 1000, 1500, 4660, 9999, 10000, 43981,
                           MaxUnsigned(SizeTBytes) }
    [] T = "char" -> {-56, 0, Ord("T"), Ord("z")}
    [] T = "bool" -> {0, 1}
    [] T = "pointer" -> {0, 2571, 4660, MaxUnsigned(PtrBytes)}
    [] T = "String" -> {0}
    [] T = "float" -> {0, 1}

\* What a build may make of writes past the end of the stack buffer: they land
\* in memory that is read back unchanged, they are lost, or the call faults.
OverrunOutcomes == {"intact", "clobbered", "fault"}

\* The characters of the literals handed to the scanner alone: '%', digits,
\* a kind character and a character that is no kind.
ScanAlphabet == {Ord(c) : c \in {"%", "0", "9", "d", "a"}}

ScanLiterals ==
  UNION {{cs \o <<0>> : cs \in [1..n -> ScanAlphabet]} : n \in 0..MaxScanLen}

\* The bytes DataBuffers are filled with: both halves of the range.
DumpBytes == {0, 10, 127, 128, 171, 240, 255}

\* The DataBuffers of a call: data of 0 to MaxDump bytes with length their
\* number, and a null data pointer with any length.
DataBuffers ==
  {[passed |-> TRUE, null |-> FALSE, data |-> d, length |-> Len(d)] :
     d \in UNION {[1..n -> DumpBytes] : n \in 0..MaxDump}}
    \cup {[passed |-> TRUE, null |-> TRUE, data |-> <<>>, length |-> n] : n \in 0..MaxDump}

\* The literals of the calls that pass a DataBuffer.
DumpLiterals ==
  { Literal(cs) : cs \in { <<>>, <<"a">>, <<"%", "u">>, <<"a", "%", "u">>, <<"%", "u", "a">>,
                           <<"%", "9", "u">>, <<"%", "a">>, <<"%", "%">> } }

\* The argument lists of the calls that pass a DataBuffer: none or one.
DumpArgs == {<<>>} \cup {<<T>> : T \in CallTypes}

\* A call that passes no DataBuffer.
NoDataBuffer == [passed |-> FALSE, null |-> FALSE, data |-> <<>>, length |-> 0]

\* enum class Trace : unsigned.
All == 0

Trace == 1

Debug == 2

Info == 3

Warn == 4

Error == 5

Fatal == 6

None == 7

\* enum class Highlight.
Highlights == {"Disabled", "Enabled"}

\* TraceHighlight<col>: the escape sequences, empty when disabled.
Escape(col, code) ==
  IF col = "Enabled" THEN (<<27, Ord("[")>> \o Chars(code)) \o <<Ord("m"), 0>> ELSE <<0>>

HighlightDef(col) == Escape(col, <<"0">>)

HighlightCyan(col) == Escape(col, <<"3", "6">>)

HighlightRed(col) == Escape(col, <<"3", "1">>)

HighlightYellow(col) == Escape(col, <<"3", "3">>)

\* Wrap::operator+: the first array without its terminator, then the second.
Concat(a, b) == SubSeq(a, 1, Len(a) - 1) \o b

\* println: string<S::string> + string<"\r\n">.
println(s) == Concat(s, <<13, 10, 0>>)

\* The functions of Log.
LogFunctions == {"trace", "debug", "info", "warning", "error", "fatal", "message"}

\* The level each function compares with the threshold.
Severity(f) ==
  CASE f = "trace" -> Trace
    [] f = "debug" -> Debug
    [] f = "info" -> Info
    [] f = "warning" -> Warn
    [] f = "error" -> Error
    [] f = "fatal" -> Fatal

\* The test with > in place of >=.
PassesAbove(f, lvl) == (f = "message") \/ (Severity(f) > lvl)

\* if constexpr (Trace::X >= level); message has no test.
Passes(f, lvl) == (f = "message") \/ (Severity(f) >= lvl)

\* The name a function prints after the time.
LevelName(f) ==
  CASE f = "trace" -> <<"T", "R", "A", "C", "E">>
    [] f = "debug" -> <<"D", "E", "B", "U", "G">>
    [] f = "info" -> <<"I", "N", "F", "O">>
    [] f = "warning" -> <<"W", "A", "R", "N">>
    [] f = "error" -> <<"E", "R", "R", "O", "R">>
    [] f = "fatal" -> <<"F", "A", "T", "A", "L">>
    [] f = "message" -> <<"M", "E", "S", "S", "A", "G", "E">>

\* The colour a function opens its line with.
HighlightOf(f, col) ==
  CASE f = "fatal" -> HighlightCyan(col)
    [] f = "error" -> HighlightRed(col)
    [] f = "warning" -> HighlightYellow(col)
    [] OTHER -> <<0>>

\* Component{} of a Log built without a component: string<"">.
component == <<0>>

\* res_str of a function for the literal s: "[%t] NAME " + component + ": " +
\* s between the colour and, in the variants without a DataBuffer, the reset;
\* println adds the line end.
ResStr(f, col, s, dump) ==
  LET head == Concat(HighlightOf(f, col),
                     Literal((<<"[", "%", "t", "]", " ">> \o LevelName(f)) \o <<" ">>))
      line == Concat(Concat(Concat(head, component), Literal(<<":", " ">>)), s)
  IN IF dump
       THEN line
       ELSE println(IF f \in {"fatal", "error", "warning"}
                      THEN Concat(line, HighlightDef(col))
                      ELSE line)

\* The values out.tick() returns in the calls of Log.
TickValues == {59, 1500}

\* The literals, argument lists and DataBuffers of the calls of Log.
LogLiterals ==
  {Literal(cs) : cs \in {<<>>, <<"a">>, <<"%", "u">>, <<"%", "9", "9", "u">>}}

LogArgs == {<<>>, <<"uint8_t">>}

LogBuffers == {NoDataBuffer} \cup {db \in DataBuffers : db.length <= 1}

\* ------------------------------------------------------------------- state

VARIABLES
  pc,             \* where the call is: idle, rejected, compiled, undefined, linked, done, fault
  str,            \* S::string of the call
  argTypes,       \* Args... of the call
  args,           \* the arguments parse has consumed so far
  table,          \* the SpecifierTable of the call
  diag,           \* the static assertions that failed: arity, width, type
  length,         \* the capacity of buffer
  buffer,         \* the bytes written through buffer[counterResult++]
  counterSource,  \* the source cursor
  counterResult,  \* the result cursor
  rendered,       \* what each formatArg call wrote and returned
  sink,           \* the arrays handed to puts.puts, in order
  ret,            \* the value the call returned
  dataBuffer,     \* the DataBuffer of the call, if it passes one
  dumpLen,        \* len of the dump overload: what the inner printf returned
  dumpIndex,      \* i of the loop of the dump overload
  level,          \* Log: LogLevel::level, the threshold
  colour,         \* Log: LogLevel::colour
  fn,             \* Log: the function called, none for a call of Format
  ticks           \* Log: the number of calls of out.tick()

dumpVars == <<dataBuffer, dumpLen, dumpIndex>>

logVars == <<level, colour, fn, ticks>>

vars ==
  << pc, str, argTypes, args, table, diag, length, buffer, counterSource, counterResult,
     rendered, sink, ret, dataBuffer, dumpLen, dumpIndex, level, colour, fn, ticks >>

Idle ==
  /\ pc = "idle"
  /\ str = <<>>
  /\ argTypes = <<>>
  /\ args = <<>>
  /\ table = <<>>
  /\ diag = {}
  /\ length = 0
  /\ buffer = <<>>
  /\ counterSource = 0
  /\ counterResult = 0
  /\ rendered = <<>>
  /\ sink = <<>>
  /\ ret = 0
  /\ dataBuffer = NoDataBuffer
  /\ dumpLen = 0
  /\ dumpIndex = 0
  /\ fn = "none"
  /\ ticks = 0

\* A Format object, or a Log with the default LogLevel.
Init == Idle /\ level = All /\ colour = "Disabled"

\* A Log with any threshold, coloured or not.
InitLog == Idle /\ level \in All..None /\ colour \in Highlights

\* ----------------------------------------------------------------- actions

\* printf(str) without arguments: overload resolution selects the overload
\* that hands S::string to the sink as it is.
PrintfPlain(s) ==
  /\ pc = "idle"
  /\ str' = s
  /\ sink' = Append(sink, s)
  /\ ret' = Len(s)
  /\ pc' = "done"
  /\ UNCHANGED << argTypes, args, table, diag, length, buffer, counterSource, counterResult,
                  rendered, dumpVars, logVars >>

\* The compile-time part of printf(str, args...): the arity assertion, the
\* table, the width assertion, the SpecCheck instantiations and the capacity.
Compile(s, Args) ==
  /\ LET specifiersQuantity == SpecifierQuantity(s)
         arity == Len(Args) = specifiersQuantity
         data == SpecifierTable(s)
         check == IF arity THEN CheckSpecsTypes(data, Args) ELSE [length |-> 0, failed |-> {}]
         failed == (IF arity THEN {} ELSE {"arity"})
                     \cup (IF checkWidth(data) THEN {} ELSE {"width"})
                     \cup (IF check.failed = {} THEN {} ELSE {"type"})
     IN /\ str' = s
        /\ argTypes' = Args
        /\ table' = data
        /\ diag' = failed
        /\ length' = check.length + Len(s)
        /\ pc' = IF failed = {} THEN "compiled" ELSE "rejected"
  /\ UNCHANGED <<args, buffer, counterSource, counterResult, rendered, sink, ret>>

\* printf(str, args...) with one argument or more.
Instantiate(s, Args) ==
  /\ pc = "idle"
  /\ Len(Args) >= 1
  /\ Compile(s, Args)
  /\ UNCHANGED <<dumpVars, logVars>>

\* The primary template declares formatArg and never defines it: a call that
\* compiled with an Unknown entry does not link.
Link ==
  /\ pc = "compiled"
  /\ pc' = IF \E k \in 1..Len(table) : table[k].specifier = Unknown
             THEN "undefined"
             ELSE IF fn # "none"
                    THEN "called"
                    ELSE IF dataBuffer.passed THEN "entered" ELSE "linked"
  /\ UNCHANGED << str, argTypes, args, table, diag, length, buffer, counterSource,
                  counterResult, rendered, sink, ret, dumpVars, logVars >>

\* One call of the parse lambda: the literal up to the entry, the argument,
\* and after the last argument the rest of the literal.
Parse(first, ub) ==
  /\ pc = "linked"
  /\ Len(args) < Len(table)
  /\ LET tableIndex == Len(table) - ((Len(table) - Len(args) - 1) + 1)
         entry == At(table, tableIndex)
         copied == SubSeq(str, counterSource + 1, entry.position)
         r == formatArg(entry.specifier, At(argTypes, tableIndex), first, entry.width, ub)
         source == (counterSource + Len(copied)) + entry.size
         rest == IF tableIndex + 1 = Len(table) THEN SubSeq(str, source + 1, Len(str)) ELSE <<>>
     IN IF r.trap
          THEN /\ pc' = "fault"
               /\ UNCHANGED <<args, buffer, counterSource, counterResult, rendered>>
          ELSE /\ pc' = pc
               /\ args' = Append(args, first)
               /\ buffer' = ((buffer \o copied) \o r.out) \o rest
               /\ counterSource' = source + Len(rest)
               /\ counterResult' = ((counterResult + Len(copied)) + r.num) + Len(rest)
               /\ rendered' = Append(rendered, [out |-> r.out, num |-> r.num])
  /\ UNCHANGED <<str, argTypes, table, diag, length, sink, ret, dumpVars, logVars>>

\* Where a call of the dump overload goes on after it returned: the coloured
\* functions of Log print the colour reset after it.
AfterDump == IF fn \in {"fatal", "error", "warning"} THEN "reset" ELSE "done"

\* return value; of printf(str, args...): to the caller, or to the dump
\* overload, which keeps the value in len.
Return(value) ==
  IF dataBuffer.passed
    THEN pc' = "dumping" /\ dumpLen' = value /\ ret' = ret
    ELSE pc' = "done" /\ ret' = value /\ dumpLen' = dumpLen

\* puts.puts(buffer); return counterResult;  Once the cursor has passed the
\* capacity the array handed over is whatever the overrun left.
Puts(outcome) ==
  /\ pc = "linked"
  /\ argTypes # <<>>
  /\ Len(args) = Len(table)
  /\ \/ /\ (counterResult <= length) \/ (outcome = "intact")
        /\ sink' = Append(sink, buffer)
        /\ Return(counterResult)
     \/ /\ counterResult > length
        /\ outcome = "clobbered"
        /\ sink' = Append(sink, SubSeq(buffer, 1, length))
        /\ Return(counterResult)
     \/ /\ counterResult > length
        /\ outcome = "fault"
        /\ pc' = "fault"
        /\ UNCHANGED <<sink, ret, dumpLen>>
  /\ UNCHANGED << str, argTypes, args, table, diag, length, buffer, counterSource,
                  counterResult, rendered, dataBuffer, dumpIndex, logVars >>

\* printf(str, dataBuffer, args...): instantiating it instantiates the inner
\* printf(str, args...), the overload without checks when args is empty.
InstantiateDump(s, db, Args) ==
  /\ pc = "idle"
  /\ dataBuffer' = db
  /\ IF Args = <<>>
       THEN /\ str' = s
            /\ pc' = "compiled"
            /\ UNCHANGED << argTypes, table, diag, length, args, buffer, counterSource,
                            counterResult, rendered, sink, ret >>
       ELSE Compile(s, Args)
  /\ UNCHANGED <<dumpLen, dumpIndex, logVars>>

\* The dump overload without its test of the data pointer.
DumpEnterUnchecked ==
  /\ pc = "entered"
  /\ ret' = ret
  /\ pc' = "linked"
  /\ UNCHANGED << str, argTypes, args, table, diag, length, buffer, counterSource,
                  counterResult, rendered, sink, dumpVars, logVars >>

\* if (nullptr == dataBuffer.data) return 0; otherwise the inner printf runs.
DumpEnter ==
  /\ pc = "entered"
  /\ IF dataBuffer.null
       THEN ret' = 0 /\ pc' = AfterDump
       ELSE ret' = ret /\ pc' = "linked"
  /\ UNCHANGED << str, argTypes, args, table, diag, length, buffer, counterSource,
                  counterResult, rendered, sink, dumpVars, logVars >>

\* The inner printf(str) of the dump overload called without arguments.
PrintfPlainInner ==
  /\ pc = "linked"
  /\ argTypes = <<>>
  /\ dataBuffer.passed
  /\ sink' = Append(sink, str)
  /\ Return(Len(str))
  /\ UNCHANGED << str, argTypes, args, table, diag, length, buffer, counterSource,
                  counterResult, rendered, dataBuffer, dumpIndex, logVars >>

\* One pass of for (i = 0; i < dataBuffer.length; i++): a group to the sink.
DumpGroup ==
  /\ pc = "dumping"
  /\ dumpIndex < dataBuffer.length
  /\ sink' = Append(sink, HexGroup(DataAt(dataBuffer.data, dumpIndex)))
  /\ dumpIndex' = dumpIndex + 1
  /\ UNCHANGED << pc, str, argTypes, args, table, diag, length, buffer, counterSource,
                  counterResult, rendered, ret, dataBuffer, dumpLen, logVars >>

\* The return value with sizeof("\r\n") not reduced by the terminator.
DumpEndSizeof ==
  /\ pc = "dumping"
  /\ ~(dumpIndex < dataBuffer.length)
  /\ sink' = Append(sink, LineEnd)
  /\ ret' = ((((Len(HexGroup(0)) - 1) * dataBuffer.length) + dumpLen) + Len(LineEnd))
               % Pow(2, 8 * SizeTBytes)
  /\ pc' = AfterDump
  /\ UNCHANGED << str, argTypes, args, table, diag, length, buffer, counterSource,
                  counterResult, rendered, dumpVars, logVars >>

\* After the loop: puts.puts("\r\n") and
\* return (sizeof(buffer) - 1) * dataBuffer.length + len + (sizeof("\r\n") - 1).
DumpEnd ==
  /\ pc = "dumping"
  /\ ~(dumpIndex < dataBuffer.length)
  /\ sink' = Append(sink, LineEnd)
  /\ ret' = ((((Len(HexGroup(0)) - 1) * dataBuffer.length) + dumpLen) + (Len(LineEnd) - 1))
               % Pow(2, 8 * SizeTBytes)
  /\ pc' = AfterDump
  /\ UNCHANGED << str, argTypes, args, table, diag, length, buffer, counterSource,
                  counterResult, rendered, dumpVars, logVars >>

\* A call of a function of Log: nothing when the level test fails, otherwise
\* the instantiation of format.println or of the dump overload of
\* format.printf with res_str and out.tick() before the arguments.
LogCall(f, s, db, Args) ==
  /\ pc = "idle"
  /\ fn' = f
  /\ dataBuffer' = db
  /\ IF Passes(f, level)
       THEN Compile(ResStr(f, colour, s, db.passed), <<"unsigned">> \o Args)
       ELSE /\ pc' = "done"
            /\ UNCHANGED << str, argTypes, table, diag, length, args, buffer, counterSource,
                            counterResult, rendered, sink, ret >>
  /\ UNCHANGED <<dumpLen, dumpIndex, level, colour, ticks>>

\* out.tick() is evaluated before the formatter is entered.
LogTick ==
  /\ pc = "called"
  /\ ticks' = ticks + 1
  /\ pc' = IF dataBuffer.passed THEN "entered" ELSE "linked"
  /\ UNCHANGED << str, argTypes, args, table, diag, length, buffer, counterSource,
                  counterResult, rendered, sink, ret, dumpVars, level, colour, fn >>

\* format.printf(string<highlight.def>) after the dump in fatal, error and
\* warning.
LogReset ==
  /\ pc = "reset"
  /\ sink' = Append(sink, HighlightDef(colour))
  /\ pc' = "done"
  /\ UNCHANGED << str, argTypes, args, table, diag, length, buffer, counterSource,
                  counterResult, rendered, ret, dumpVars, logVars >>

\* ---------------------------------------------------------- specifications

\* General calls: every literal over CallAlphabet, 0 to MaxArgs arguments.
Next ==
  \/ pc = "idle" /\ \E s \in CallLiterals : PrintfPlain(s)
  \/ pc = "idle" /\ \E s \in CallLiterals, Args \in CallArgs : Instantiate(s, Args)
  \/ Link
  \/ pc = "linked" /\ Len(args) < Len(argTypes)
       /\ \E first \in CallValues(argTypes[Len(args) + 1]), ub \in UBOutcomes : Parse(first, ub)
  \/ \E outcome \in OverrunOutcomes : Puts(outcome)

Spec == Init /\ [][Next]_vars

\* Calls with one specifier: every kind, every type, every width up to
\* MaxWidth, the values of Values.
NextUnit ==
  \/ pc = "idle" /\ \E s \in UnitLiterals, T \in Types : Instantiate(s, <<T>>)
  \/ Link
  \/ pc = "linked" /\ Len(args) < Len(argTypes)
       /\ \E first \in Values(argTypes[Len(args) + 1]), ub \in UBOutcomes : Parse(first, ub)
  \/ \E outcome \in OverrunOutcomes : Puts(outcome)

SpecUnit == Init /\ [][NextUnit]_vars

\* The scanner alone: the instantiation of a call with one argument, for
\* every literal of at most MaxScanLen characters over ScanAlphabet.
NextScan == pc = "idle" /\ \E s \in ScanLiterals : Instantiate(s, <<"unsigned">>)

SpecScan == Init /\ [][NextScan]_vars

\* The calls of Log: every threshold, every function, with and without a
\* DataBuffer; the first argument is the value of out.tick().
NextLog ==
  \/ pc = "idle"
       /\ \E f \in LogFunctions, s \in LogLiterals, db \in LogBuffers, Args \in LogArgs :
            LogCall(f, s, db, Args)
  \/ Link
  \/ LogTick
  \/ DumpEnter
  \/ pc = "linked" /\ Len(args) < Len(argTypes)
       /\ \E first \in (IF Len(args) = 0 THEN TickValues
                                          ELSE CallValues(argTypes[Len(args) + 1])),
             ub \in UBOutcomes : Parse(first, ub)
  \/ \E outcome \in OverrunOutcomes : Puts(outcome)
  \/ DumpGroup
  \/ DumpEnd
  \/ LogReset

SpecLog == InitLog /\ [][NextLog]_vars

\* The three overloads of printf: the general calls of Spec, and calls that
\* pass a DataBuffer, null or of at most MaxDump bytes.
NextDump ==
  \/ pc = "idle" /\ \E s \in CallLiterals : PrintfPlain(s)
  \/ pc = "idle" /\ \E s \in CallLiterals, Args \in CallArgs : Instantiate(s, Args)
  \/ pc = "idle"
       /\ \E s \in DumpLiterals, Args \in DumpArgs, db \in DataBuffers : InstantiateDump(s, db, Args)
  \/ Link
  \/ DumpEnter
  \/ PrintfPlainInner
  \/ pc = "linked" /\ Len(args) < Len(argTypes)
       /\ \E first \in CallValues(argTypes[Len(args) + 1]), ub \in UBOutcomes : Parse(first, ub)
  \/ \E outcome \in OverrunOutcomes : Puts(outcome)
  \/ DumpGroup
  \/ DumpEnd

SpecDump == Init /\ [][NextDump]_vars

\* ------------------------------------------------------------------ claims

\* The call went through the general overload, which builds the table.
General == pc # "idle" /\ argTypes # <<>>

\* The end (one past the last byte) of the span of entry k; 0 before entry 1.
SpanEnd(k) == IF k = 0 THEN 0 ELSE table[k].position + table[k].size

\* The literal between the spans of entries k-1 and k, then the rendering of
\* argument k, for k = 1..n.
RECURSIVE Substituted(_)
Substituted(n) ==
  IF n = 0
    THEN <<>>
    ELSE (Substituted(n - 1) \o SubSeq(str, SpanEnd(n - 1) + 1, table[n].position))
           \o rendered[n].out

\* What the call is to hand to the sink: the substituted spans and the
\* literal after the last span, terminator included.
Expected == Substituted(Len(table)) \o SubSeq(str, SpanEnd(Len(table)) + 1, Len(str))

\* C1: whatever the widths and the values, the result cursor of a call that
\* rendered all its arguments (terminator written) is at most the capacity of
\* the buffer, the sum of the length bounds plus the literal's byte count.
C1_WithinCapacity ==
  (pc \in {"linked", "done"} /\ General /\ Len(args) = Len(table)) => counterResult <= length

\* C2: the array handed to the sink is, entry by entry, the literal between
\* the previous span and the entry, then the rendering of the argument of the
\* same position, and at the end the rest of the literal with its terminator.
C2_SinkIsSubstitution ==
  (pc = "done" /\ General) => sink = <<Expected>>

\* C3: a call whose number of arguments differs from the number of '%' of the
\* literal, zero arguments included, is rejected and hands nothing to the sink.
C3_ArityMismatchRejected ==
  (pc # "idle" /\ Len(argTypes) # SpecifierQuantity(str)) => (pc = "rejected" /\ sink = <<>>)

\* C4: a literal with an entry of kind Unknown is rejected by the validation:
\* some static assertion fails, whatever the argument types.
C4_UnknownRejected ==
  (General /\ \E k \in 1..Len(table) : table[k].specifier = Unknown)
    => (pc = "rejected" /\ diag # {})

\* The integral types of the build by signedness.
SignedIntegral == {"int8_t", "int"} \cup (IF CharIsSigned THEN {"char"} ELSE {})

UnsignedIntegral == {"uint8_t", "unsigned", "bool"} \cup (IF CharIsSigned THEN {} ELSE {"char"})

\* The rule of the claim for a kind: the types that are legal for it.
Legal(sp) ==
  CASE sp = SignedDecimalInteger -> SignedIntegral
    [] sp = UnsignedDecimalInteger -> UnsignedIntegral
    [] sp = UnsignedHexadecimalInteger -> UnsignedIntegral
    [] sp = Character -> {"char"}
    [] sp = StringOfCharacters -> {"String"}
    [] sp = PointerAddress -> {"pointer"}
    [] sp = Time -> {T \in UnsignedIntegral : sizeof(T) >= SizeTBytes}
    [] sp = Boolean -> Types \ {"String"}

\* C5: for each of the eight kinds and each argument type the validator
\* rejects the pair (a type assertion fails, the call is rejected) exactly
\* when the type is not legal for the kind.
C5_ValidatorRule ==
  (General /\ Len(table) = 1 /\ Len(argTypes) = 1 /\ table[1].specifier \in specifiers)
    => /\ ("type" \in diag) <=> (argTypes[1] \notin Legal(table[1].specifier))
       /\ ("type" \in diag) => pc = "rejected"

\* C5 witness: %t with an unsigned integral type smaller than size_t is
\* rejected for its type alone.
C5_Witness ==
  /\ pc = "rejected"
  /\ diag = {"type"}
  /\ Len(table) = 1
  /\ table[1].specifier = Time
  /\ argTypes = <<"uint8_t">>

\* Some entry that is not a decimal one has a nonzero width.
WidthMisused ==
  \E k \in 1..Len(table) :
    table[k].specifier \notin {SignedDecimalInteger, UnsignedDecimalInteger} /\ table[k].width > 0

\* C6: a call is rejected for width exactly when some entry that is neither
\* SignedDecimal nor UnsignedDecimal has a nonzero width.
C6_WidthRule ==
  General => /\ ("width" \in diag) <=> WidthMisused
             /\ ("width" \in diag) => pc = "rejected"

\* C6 witness: a hexadecimal entry with a width, its type legal: rejected for
\* the width alone.
C6_Witness ==
  /\ pc = "rejected"
  /\ diag = {"width"}
  /\ \E k \in 1..Len(table) :
       table[k].specifier = UnsignedHexadecimalInteger /\ table[k].width = 9

\* The number of decimal digits of v >= 0.
NumDigits(v) == CHOOSE n \in 1..9 : v < Pow(10, n) /\ (n = 1 \/ v >= Pow(10, n - 1))

Zeros(n) == [i \in 1..n |-> CharZero]

\* ds behind as many '0' as bring it to w characters, if it has fewer.
ZeroPadded(ds, w) == IF Len(ds) < w THEN Zeros(w - Len(ds)) \o ds ELSE ds

\* The number a sequence of decimal digits denotes.
RECURSIVE DecValue(_)
DecValue(ds) ==
  IF ds = <<>> THEN 0 ELSE 10 * DecValue(SubSeq(ds, 1, Len(ds) - 1)) + (ds[Len(ds)] - CharZero)

Max(a, b) == IF a >= b THEN a ELSE b

\* C7: the unsigned-decimal routine writes the digits of v most significant
\* first, behind '0's up to w characters when v has fewer digits than w; it
\* returns max(digits of v, w); 0 without a width is the single digit '0'.
C7_UnsignedDecimal ==
  \A k \in 1..Len(rendered) :
    table[k].specifier = UnsignedDecimalInteger
      => LET v == args[k]
             w == table[k].width
             r == rendered[k]
             nd == NumDigits(v)
         IN /\ r.num = Max(nd, w)
            /\ Len(r.out) = r.num
            /\ r.out = ZeroPadded(Decimal(v), w)
            /\ \A i \in 1..r.num : r.out[i] \in CharZero..CharNine
            /\ DecValue(r.out) = v
            /\ \A i \in 1..(r.num - nd) : r.out[i] = CharZero
            /\ (nd > 1) => r.out[(r.num - nd) + 1] # CharZero
            /\ (v = 0 /\ w = 0) => r.out = <<CharZero>>

\* C7 witness: %5u with 7 rendered 00007.
C7_Witness ==
  /\ Len(rendered) = 1
  /\ table[1].specifier = UnsignedDecimalInteger
  /\ table[1].width = 5
  /\ args = <<7>>
  /\ rendered[1] = [out |-> Chars(<<"0", "0", "0", "0", "7">>), num |-> 5]

\* The magnitude of v.
Abs(v) == IF v < 0 THEN -v ELSE v

\* C8: the signed-decimal routine renders every value of the argument type,
\* the least included, as '-' when v < 0 followed by the digits of |v| behind
\* '0's up to w digits; it returns max(digits of |v|, w), plus 1 when v < 0,
\* and writes only '-' and digits.
C8_SignedDecimal ==
  \A k \in 1..Len(rendered) :
    table[k].specifier = SignedDecimalInteger
      => LET v == args[k]
             w == table[k].width
             r == rendered[k]
             sign == IF v < 0 THEN <<CharMinus>> ELSE <<>>
         IN /\ r.num = Max(NumDigits(Abs(v)), w) + Len(sign)
            /\ r.out = sign \o ZeroPadded(Decimal(Abs(v)), w)
            /\ \A i \in 1..Len(r.out) : r.out[i] \in (CharZero..CharNine) \cup {CharMinus}

\* The hexadecimal digits in order.
HexAlphabet ==
  Chars(<<"0", "1", "2", "3", "4", "5", "6", "7", "8", "9", "A", "B", "C", "D", "E", "F">>)

\* C9: the hexadecimal and the pointer routine write '0', 'x' and the 2*s
\* nibbles of the value most significant first, as 0-9 and A-F, leading zero
\* nibbles included, and return 2*s + 2 (s the size of the argument type, of
\* a pointer for %p).
C9_HexFixedWidth ==
  \A k \in 1..Len(rendered) :
    table[k].specifier \in {UnsignedHexadecimalInteger, PointerAddress}
      => LET v == args[k]
             r == rendered[k]
             size == IF table[k].specifier = PointerAddress THEN PtrBytes ELSE sizeof(argTypes[k])
         IN /\ r.num = 2 * size + 2
            /\ Len(r.out) = r.num
            /\ SubSeq(r.out, 1, 2) = <<CharZero, CharLowerX>>
            /\ \A j \in 1..(2 * size) :
                 r.out[2 + j] = HexAlphabet[((v \div Pow(16, 2 * size - j)) % 16) + 1]

\* C9 witness: %X with the 8-bit value 0 rendered 0x00.
C9_Witness ==
  /\ Len(rendered) = 1
  /\ table[1].specifier = UnsignedHexadecimalInteger
  /\ argTypes = <<"uint8_t">>
  /\ args = <<0>>
  /\ rendered[1] = [out |-> Chars(<<"0", "x", "0", "0">>), num |-> 4]

\* C10: the time routine writes the digits of v / 1000 without padding, '.',
\* and the three digits of v mod 1000; it returns digits(v / 1000) + 4.
C10_Time ==
  \A k \in 1..Len(rendered) :
    table[k].specifier = Time
      => LET v == args[k]
             r == rendered[k]
             ms == v % 1000
         IN /\ r.num = NumDigits(v \div 1000) + 4
            /\ Len(r.out) = r.num
            /\ r.out = (Decimal(v \div 1000) \o <<CharDot>>)
                         \o << CharZero + (ms \div 100), CharZero + ((ms \div 10) % 10),
                               CharZero + (ms % 10) >>

\* C10 witness: 59 ms rendered 0.059.
C10_Witness ==
  /\ Len(rendered) = 1
  /\ table[1].specifier = Time
  /\ args = <<59>>
  /\ rendered[1] = [out |-> Chars(<<"0", ".", "0", "5", "9">>), num |-> 5]

\* C11: the boolean routine writes exactly the 4 bytes TRUE and returns 4 for
\* an argument that converts to true, exactly the 5 bytes FALSE and returns 5
\* for one that converts to false, and no terminator or other byte.
C11_Boolean ==
  \A k \in 1..Len(rendered) :
    table[k].specifier = Boolean
      => rendered[k] = (IF args[k] # 0
                          THEN [out |-> Chars(<<"T", "R", "U", "E">>), num |-> 4]
                          ELSE [out |-> Chars(<<"F", "A", "L", "S", "E">>), num |-> 5])

\* C11 witness: %b with the int -1 rendered TRUE, and with a null pointer
\* FALSE is reachable the same way.
C11_Witness ==
  /\ Len(rendered) = 1
  /\ table[1].specifier = Boolean
  /\ argTypes = <<"int">>
  /\ args = <<-1>>
  /\ rendered[1] = [out |-> Chars(<<"T", "R", "U", "E">>), num |-> 4]

\* The call passed a DataBuffer whose data pointer is not null.
DumpCall == dataBuffer.passed /\ ~dataBuffer.null

\* C12: a call of the dump overload with a null data pointer returns 0 and
\* never invokes the sink, whatever the literal, the arguments and the length
\* of the DataBuffer.
C12_NullDataNoOutput ==
  (dataBuffer.passed /\ dataBuffer.null)
    => /\ sink = <<>>
       /\ pc \notin {"linked", "dumping"}
       /\ (pc = "done" => ret = 0)

\* C12 witness: a null DataBuffer of length 2 with a literal and an argument
\* that compile; the call returned 0.
C12_Witness ==
  /\ pc = "done"
  /\ dataBuffer.passed /\ dataBuffer.null /\ dataBuffer.length = 2
  /\ argTypes = <<"uint8_t">>
  /\ ret = 0
  /\ sink = <<>>

\* What the inner printf of a dump call is to hand to the sink.
RenderedLiteral == IF argTypes = <<>> THEN str ELSE Expected

\* The group of the byte b: a space, the digit of the high nibble, the digit
\* of the low nibble, and the terminator of the array.
HexPair(b) == <<Ord(" "), HexAlphabet[(b \div 16) + 1], HexAlphabet[(b % 16) + 1], 0>>

\* C13: a call of the dump overload with data of n bytes hands to the sink the
\* rendered literal once, then n groups, the i-th the hexadecimal group of the
\* i-th byte, then one "\r\n": n + 2 arrays, also when n = 0.
C13_DumpOrder ==
  (pc = "done" /\ DumpCall)
    => /\ Len(sink) = dataBuffer.length + 2
       /\ sink = (<<RenderedLiteral>>
                    \o [k \in 1..dataBuffer.length |-> HexPair(dataBuffer.data[k])])
                   \o <<LineEnd>>

\* The sum of the lengths the first n formatArg calls returned.
RECURSIVE SumNum(_)
SumNum(n) == IF n = 0 THEN 0 ELSE SumNum(n - 1) + rendered[n].num

\* The bytes of the literal inside the spans of the first n entries.
RECURSIVE SumSize(_)
SumSize(n) == IF n = 0 THEN 0 ELSE SumSize(n - 1) + table[n].size

\* The literal's bytes outside the spans, terminator included, and what the
\* routines returned; with no argument the table is empty.
RenderedCount ==
  IF argTypes = <<>> THEN Len(str) ELSE (Len(str) - SumSize(Len(table))) + SumNum(Len(rendered))

\* C16: the general overload returns its final result cursor, the literal's
\* bytes outside the spans plus the lengths the routines returned; the
\* overload without arguments returns the literal's byte count; the dump
\* overload with data of n bytes returns the rendered count plus 3n + 2.
C16_ReturnValue ==
  pc = "done"
    => /\ (~dataBuffer.passed) => ret = RenderedCount
       /\ (~dataBuffer.passed /\ argTypes # <<>>) => ret = counterResult
       /\ DumpCall => ret = (RenderedCount + (3 * dataBuffer.length)) + 2

\* C16 witness: "a%u" with 255 and two bytes of data: "a255" and its
\* terminator, six characters of groups, two of line end.
C16_Witness ==
  /\ pc = "done"
  /\ DumpCall
  /\ dataBuffer.length = 2
  /\ str = Literal(<<"a", "%", "u">>)
  /\ args = <<255>>
  /\ ret = 13

\* C18: every group handed to the sink is a space, the uppercase hexadecimal
\* digit of the high nibble of its byte and that of the low nibble, for every
\* byte value, char being signed or not.
C18_HexGroup ==
  (DumpCall /\ pc \in {"dumping", "done"})
    => \A k \in 1..dumpIndex : sink[k + 1] = HexPair(dataBuffer.data[k])

\* C19: for every kind, legal argument type, value and accepted width, the
\* length a render routine returns is at most the length its SpecCheck
\* specialisation contributes to the capacity.
C19_LengthWithinPlan ==
  \A k \in 1..Len(rendered) :
    rendered[k].num <= SpecCheckLength(table[k].specifier, argTypes[k])

\* The entries the scan filled: a filled entry spans '%' and the character
\* after the digits, a value-initialised one spans nothing.
Populated == {k \in 1..Len(table) : table[k].size > 0}

\* C15: the table has one populated entry for each '%' of the literal (as
\* many as SpecifierQuantity counts), in strictly ascending position order,
\* each at the offset of a '%'.
C15_TableMatchesPercents ==
  General
    => /\ Len(table) = SpecifierQuantity(str)
       /\ Cardinality(Populated) = SpecifierQuantity(str)
       /\ \A k \in 1..Len(table) : At(str, table[k].position) = CharPercent
       /\ \A k \in 1..(Len(table) - 1) : table[k].position < table[k + 1].position

\* C17: a populated entry for the '%' at offset p followed by m digits has
\* the decimal value of the digit run as width, the character at p + m + 1 as
\* kind when it is one of d,u,X,c,s,p,t,b and Unknown otherwise, and m + 2 as
\* size; position + size is at most the literal's byte count.
C17_EntryFields ==
  General
    => \A k \in Populated :
         LET p == table[k].position
             m == table[k].size - 2
             run == [j \in 1..m |-> At(str, p + j)]
             c == At(str, (p + m) + 1)
         IN /\ At(str, p) = CharPercent
            /\ m >= 0
            /\ \A j \in 1..m : IsDigit(run[j])
            /\ ~IsDigit(c)
            /\ table[k].width = DecValue(run)
            /\ table[k].specifier = (IF c \in specifiers THEN c ELSE Unknown)
            /\ p + table[k].size <= Len(str)

\* The order of the levels the claim states, least first.
ClaimedOrder == <<"All", "Trace", "Debug", "Info", "Warn", "Error", "Fatal", "None">>

\* The place of a level in that order.
Rank(name) == CHOOSE r \in 1..Len(ClaimedOrder) : ClaimedOrder[r] = name

\* The severity of each leveled function.
ClaimedSeverity ==
  [trace |-> "Trace", debug |-> "Debug", info |-> "Info", warning |-> "Warn",
   error |-> "Error", fatal |-> "Fatal"]

\* The call is to produce output: message always, a leveled function when its
\* severity is at least the threshold (level counts the enumerators from 0).
ShouldPass == (fn = "message") \/ (Rank(ClaimedSeverity[fn]) >= level + 1)

\* The call passed a DataBuffer with a null data pointer.
NullData == dataBuffer.passed /\ dataBuffer.null

\* C14 as stated: a call of a function of Log, with or without a DataBuffer,
\* produces output exactly when its severity is at least the threshold
\* (message always); a filtered-out call invokes neither the sink nor tick().
C14_LevelFilter ==
  (fn # "none" /\ pc = "done")
    => /\ (sink # <<>>) <=> ShouldPass
       /\ (~ShouldPass) => ticks = 0

\* C14 amended: the same, except that a call that passes the level test with
\* a DataBuffer whose data pointer is null calls tick() and produces no
\* message: the sink receives nothing, or only the colour reset from fatal,
\* error and warning.
C14_LevelFilterAmended ==
  fn # "none"
    => /\ (~ShouldPass) => (ticks = 0 /\ sink = <<>> /\ pc = "done")
       /\ pc = "done"
            => /\ ShouldPass <=> ticks = 1
               /\ (~NullData) => ((sink # <<>>) <=> ShouldPass)
               /\ (ShouldPass /\ NullData)
                    => sink = (IF fn \in {"fatal", "error", "warning"}
                                 THEN <<HighlightDef(colour)>>
                                 ELSE <<>>)

\* C14 witness: info under the threshold Info with one byte of data: the
\* message, one group and the line end, after one tick().
C14_Witness ==
  /\ pc = "done"
  /\ fn = "info"
  /\ level = Info
  /\ DumpCall
  /\ dataBuffer.length = 1
  /\ ticks = 1
  /\ Len(sink) = 3

====
